---- MODULE Spec2Model ----
(***************************************************************************)
(* pyTanks.Server: the websocket session layer and the frame loop of       *)
(* wsServer.py, as one asyncio event loop.  A step of the model is one     *)
(* run of a coroutine (or of a callback of the frame loop) between two     *)
(* awaits: nothing interleaves inside it, as nothing does in asyncio.      *)
(*                                                                         *)
(* Time is counted in units of 1% of the ideal frame duration, so that     *)
(* baseDelay, its 1% step, the 1/250 s floor and 1/updatesPerSecond are    *)
(* all integers.  The FPS log counters (frameCount, lastFSPLog) only feed  *)
(* print() and are left out.                                               *)
(***************************************************************************)
EXTENDS Integers, Sequences, FiniteSets, TLC

\* ---- bounds of the model ----
MaxConns == 2          \* connections that are ever opened
PlayerSlots == 1       \* len(config.serverSettings.tankNames)
MaxViewerIDs == 2      \* how many identities of the viewer range are drawn
MaxSends == 2          \* calls of send() that find a client to append to
MaxQueue == 1          \* messages received and held in one inbound queue
MaxCoord == 1          \* positions of a tank on each axis
MaxScore == 1          \* kills and wins of a tank
MaxTime == 1           \* instants at which a tank shoots
MaxRise == 3           \* steps the delay is followed above the ideal frame

\* ---- program constants ----
framesPerSecond == 60
updatesPerSecond == 15
ViewerLo == 1000
ViewerHi == 9999
WindowLen == 15
MinRate == 250
ViewerPath == "/pyTanksAPI/viewer"
PlayerPath == "/pyTanksAPI/player"
OtherPath == "/"
ViewerType == "viewer"
PlayerType == "player"
Rejection == "Invalid API path - Check that your client config is up to date"

UnitsPerSecond == 100 * framesPerSecond
baseDelay == UnitsPerSecond \div framesPerSecond
DelayStep == baseDelay \div 100
DelayFloor == UnitsPerSecond \div MinRate
UpdatePeriod == UnitsPerSecond \div updatesPerSecond

Conns == 1..MaxConns
Paths == {ViewerPath, PlayerPath, OtherPath}
ClientTypes == {ViewerType, PlayerType}
Messages == 1..MaxSends     \* what callbacks send
Received == {"x"}           \* what clients send
NoID == -1

Min(a, b) == IF a < b THEN a ELSE b

\* random.randint(0, len(tankNames) - 1)
PlayerIDs == 0..(PlayerSlots - 1)
\* random.randint(1000, 9999), of which the model draws the first few
ViewerIDs == ViewerLo..Min(ViewerHi, ViewerLo + MaxViewerIDs - 1)
IDs == PlayerIDs \cup ViewerIDs

\* The frame deltas the clock of this specification measures
SpecDeltas == {baseDelay}

VARIABLES
    clients,              \* the dict of active clients: clientID -> client
    hpc,                  \* clientHandler of each connection: where it is
    path,                 \* the path each connection asked for
    clientID,             \* clientHandler's local clientID
    spc,                  \* the sendTask each clientHandler created: where it is
    sockOpen,             \* the websocket of each connection is open
    wire,                 \* what was handed to each websocket's send(), in order
    enq,                  \* history: what send() appended for each connection's session
    tpc,                  \* frameLoop: where it is
    tfault,               \* what ended frameLoop, if anything did
    deltas,               \* frameLoop's window of frame deltas
    delay,                \* frameLoop's delay
    frameDelta,           \* frameLoop's frameDelta of the current frame
    timeSinceLastUpdate,  \* frameLoop's update accumulator
    overhead,             \* the clock: what one frame takes on top of its sleep
    tankObj,              \* a tank's __dict__
    snapshot              \* what the last call of tank.toDict returned

vars == <<clients, hpc, path, clientID, spc, sockOpen, wire, enq,
          tpc, tfault, deltas, delay, frameDelta, timeSinceLastUpdate,
          overhead, tankObj, snapshot>>

connVars == <<hpc, path, clientID, sockOpen>>
taskVars == <<spc, wire>>
timeVars == <<deltas, delay, frameDelta, timeSinceLastUpdate, overhead>>
loopVars == <<tpc, tfault>>
tankVars == <<tankObj, snapshot>>

\* client.__init__
client(clientSocket, type) ==
    [socket |-> clientSocket, type |-> type, outgoing |-> <<>>, incoming |-> <<>>]

\* clients[clientID] = aClient
Put(cl, id, aClient) ==
    [i \in DOMAIN cl \cup {id} |-> IF i = id THEN aClient ELSE cl[i]]

\* clients.pop(clientID)
Pop(cl, id) == [i \in DOMAIN cl \ {id} |-> cl[i]]

\* The session created for connection c is the one registered under its clientID
Owns(c) == clientID[c] \in DOMAIN clients /\ clients[clientID[c]].socket = c

\* The event loop is running: frameLoop has not raised out of
\* run_until_complete, and no coroutine is inside a loop that never awaits
Running == tpc # "crashed" /\ \A c \in Conns : hpc[c] # "spin"

\* frameLoop is suspended in asyncio.sleep, so other coroutines get to run
Yielded == Running /\ tpc = "sleeping"

\* frameLoop is inside frameCallback or updateCallback
InCallback == Running /\ tpc \in {"frame", "update"}

\* ---- gameClasses.tank ----

\* The keys of a tank's __dict__; the private attribute is stored name-mangled
TimestampKey == "_tank__lastShotTime"
ScoreKeys == {"kills", "wins"}
PublicKeys == {"x", "y", "heading", "moving", "status"}
TankKeys == PublicKeys \cup ScoreKeys \cup {TimestampKey}

Coords == 0..MaxCoord
Headings == 0..1                  \* in quarter turns from the +x axis
TankStatuses == {"dead", "alive"}
Scores == 0..MaxScore
Times == 0..MaxTime

\* tank.__init__: shotTime is now - reloadTime
tank(x, y, heading, shotTime) ==
    ("x" :> x) @@ ("y" :> y) @@ ("heading" :> heading) @@ ("moving" :> FALSE) @@
    (TimestampKey :> shotTime) @@ ("status" :> "dead") @@ ("kills" :> 0) @@ ("wins" :> 0)

\* The tanks the simulation can hold: every attribute is assigned from outside
Tanks ==
    {("x" :> x) @@ ("y" :> y) @@ ("heading" :> h) @@ ("moving" :> m) @@
     (TimestampKey :> t) @@ ("status" :> st) @@ ("kills" :> k) @@ ("wins" :> w) :
        x \in Coords, y \in Coords, h \in Headings, m \in BOOLEAN, t \in Times,
        st \in TankStatuses, k \in Scores, w \in Scores}

\* del myDict[key]
Del(myDict, key) == [k \in DOMAIN myDict \ {key} |-> myDict[k]]

\* Before any call of toDict
NoDict == <<>>

\* tank.toDict with the dict of self aliased instead of copied
toDict_NoCopy(self, doClean) ==
    LET bare == Del(self, TimestampKey)
        myDict == IF doClean THEN Del(Del(bare, "kills"), "wins") ELSE bare
    IN [self |-> myDict, returned |-> myDict]

\* tank.toDict: the tank after the call and the dict it returns
toDict(self, doClean) ==
    LET bare == Del(self, TimestampKey)
        myDict == IF doClean THEN Del(Del(bare, "kills"), "wins") ELSE bare
    IN [self |-> self, returned |-> myDict]

\* cos and sin of a heading in quarter turns
Cos(heading) == IF heading = 0 THEN 1 ELSE 0
Sin(heading) == IF heading = 0 THEN 0 ELSE 1

\* ---- construction ----

ServerInit ==
    /\ clients = <<>>
    /\ hpc = [c \in Conns |-> "idle"]
    /\ path = [c \in Conns |-> OtherPath]
    /\ clientID = [c \in Conns |-> NoID]
    /\ spc = [c \in Conns |-> "none"]
    /\ sockOpen = [c \in Conns |-> FALSE]
    /\ wire = [c \in Conns |-> <<>>]
    /\ enq = [c \in Conns |-> <<>>]
    /\ tpc = "start"
    /\ tfault = "none"
    /\ deltas = <<>>
    /\ delay = baseDelay
    /\ frameDelta = 0
    /\ timeSinceLastUpdate = UpdatePeriod

Init ==
    /\ ServerInit
    /\ overhead = 0
    /\ tankObj = tank(0, 0, 0, 0)
    /\ snapshot = NoDict

\* ---- clientHandler ----

\* The namespace random.randint draws a clientID from
Namespace(clientType) == IF clientType = PlayerType THEN PlayerIDs ELSE ViewerIDs

\* FreeIDs without the "clientID not in clients" test
FreeIDs_Unchecked(clientType) == Namespace(clientType)

\* The clientIDs the "while True" loop can leave with: drawn and not in clients
FreeIDs(clientType) == {id \in Namespace(clientType) : id \notin DOMAIN clients}

\* Reject that registers the client all the same
Reject_Registers(c, p) ==
    /\ p \notin {ViewerPath, PlayerPath}
    /\ hpc' = [hpc EXCEPT ![c] = "rejecting"]
    /\ wire' = [wire EXCEPT ![c] = Append(@, Rejection)]
    /\ clients' = Put(clients, ViewerLo, client(c, ViewerType))
    /\ UNCHANGED <<clientID, spc>>

\* An invalid path: the rejection is sent and the handler will return
Reject(c, p) ==
    /\ p \notin {ViewerPath, PlayerPath}
    /\ hpc' = [hpc EXCEPT ![c] = "rejecting"]
    /\ wire' = [wire EXCEPT ![c] = Append(@, Rejection)]
    /\ UNCHANGED <<clients, clientID, spc>>

\* A valid path: generate a clientID, register, create the sendTask, await recv()
Admit(c, p) ==
    /\ p \in {ViewerPath, PlayerPath}
    /\ LET clientType == IF p = ViewerPath THEN ViewerType ELSE PlayerType IN
         IF FreeIDs(clientType) = {}
         THEN \* every draw is in clients: the loop never breaks and never awaits
              /\ hpc' = [hpc EXCEPT ![c] = "spin"]
              /\ UNCHANGED <<clients, clientID, spc, wire>>
         ELSE \E id \in FreeIDs(clientType) :
              /\ clientID' = [clientID EXCEPT ![c] = id]
              /\ clients' = Put(clients, id, client(c, clientType))
              /\ spc' = [spc EXCEPT ![c] = "ready"]
              /\ hpc' = [hpc EXCEPT ![c] = "recv"]
              /\ UNCHANGED wire

\* Clients arrive once the server has run for a quarter of a second (the
\* window of frame deltas is full), and connection c + 1 arrives after c
Arrives(c) ==
    /\ Len(deltas) = WindowLen
    /\ \A b \in Conns : b < c => hpc[b] # "idle"

\* A client connects on path p: clientHandler runs up to its first await
Connect(c, p) ==
    /\ Yielded
    /\ hpc[c] = "idle"
    /\ Arrives(c)
    /\ path' = [path EXCEPT ![c] = p]
    /\ sockOpen' = [sockOpen EXCEPT ![c] = TRUE]
    /\ (Reject(c, p) \/ Admit(c, p))
    /\ UNCHANGED <<enq, loopVars, timeVars, tankVars>>

\* websocket.send(rejection) is done: clientHandler returns and the socket dies
RejectReturn(c) ==
    /\ Yielded
    /\ hpc[c] = "rejecting"
    /\ hpc' = [hpc EXCEPT ![c] = "returned"]
    /\ sockOpen' = [sockOpen EXCEPT ![c] = FALSE]
    /\ UNCHANGED <<clients, path, clientID, taskVars, enq, loopVars, timeVars, tankVars>>

\* The remote side closes the connection
RemoteClose(c) ==
    /\ Yielded
    /\ hpc[c] = "recv"
    /\ sockOpen[c]
    /\ sockOpen' = [sockOpen EXCEPT ![c] = FALSE]
    /\ UNCHANGED <<clients, hpc, path, clientID, taskVars, enq, loopVars, timeVars, tankVars>>

\* websocket.recv() returns message: it is appended to clients[clientID].incoming
\* (a KeyError when clientID is not in clients), and the loop awaits again
Recv(c, message) ==
    /\ Yielded
    /\ hpc[c] = "recv"
    /\ sockOpen[c]
    /\ IF clientID[c] \in DOMAIN clients
       THEN /\ Len(clients[clientID[c]].incoming) < MaxQueue
            /\ clients' = [clients EXCEPT ![clientID[c]].incoming = Append(@, message)]
            /\ UNCHANGED <<hpc, sockOpen>>
       ELSE /\ hpc' = [hpc EXCEPT ![c] = "keyError"]
            /\ sockOpen' = [sockOpen EXCEPT ![c] = FALSE]
            /\ UNCHANGED clients
    /\ UNCHANGED <<path, clientID, taskVars, enq, loopVars, timeVars, tankVars>>

\* websocket.recv() raises ConnectionClosed: clients.pop(clientID)
\* (a KeyError when clientID is not in clients), and the handler is over
RecvClosed(c) ==
    /\ Yielded
    /\ hpc[c] = "recv"
    /\ ~sockOpen[c]
    /\ IF clientID[c] \in DOMAIN clients
       THEN /\ clients' = Pop(clients, clientID[c])
            /\ hpc' = [hpc EXCEPT ![c] = "returned"]
       ELSE /\ hpc' = [hpc EXCEPT ![c] = "keyError"]
            /\ UNCHANGED clients
    /\ UNCHANGED <<path, clientID, sockOpen, taskVars, enq, loopVars, timeVars, tankVars>>

\* websocket.recv() raises something that is not ConnectionClosed: no except
\* clause matches, the exception leaves clientHandler and the socket dies
RecvFault(c) ==
    /\ Yielded
    /\ hpc[c] = "recv"
    /\ sockOpen[c]
    /\ hpc' = [hpc EXCEPT ![c] = "fault"]
    /\ sockOpen' = [sockOpen EXCEPT ![c] = FALSE]
    /\ UNCHANGED <<clients, path, clientID, taskVars, enq, loopVars, timeVars, tankVars>>

\* ---- sendTask ----

\* The pass that hands the message to the socket of the task's own connection
SendTaskStep_OwnSocket(c) ==
    /\ Yielded
    /\ spc[c] = "ready"
    /\ IF clientID[c] \notin DOMAIN clients
       THEN /\ spc' = [spc EXCEPT ![c] = "exited"]
            /\ UNCHANGED <<clients, wire>>
       ELSE LET aClient == clients[clientID[c]] IN
            IF Len(aClient.outgoing) # 0
            THEN /\ clients' = [clients EXCEPT ![clientID[c]].outgoing = Tail(@)]
                 /\ IF sockOpen[c]
                    THEN /\ wire' = [wire EXCEPT ![c] = Append(@, Head(aClient.outgoing))]
                         /\ UNCHANGED spc
                    ELSE /\ spc' = [spc EXCEPT ![c] = "crashed"]
                         /\ UNCHANGED wire
            ELSE UNCHANGED <<clients, wire, spc>>
    /\ UNCHANGED <<connVars, enq, loopVars, timeVars, tankVars>>

\* One pass of "while clientID in clients" up to its await: leave the loop, or
\* pop the oldest message and hand it to clients[clientID].socket (which raises
\* ConnectionClosed into the task when that socket is closed), or sleep 50 ms.
\* After either await the task is back at the loop condition.
SendTaskStep(c) ==
    /\ Yielded
    /\ spc[c] = "ready"
    /\ IF clientID[c] \notin DOMAIN clients
       THEN /\ spc' = [spc EXCEPT ![c] = "exited"]
            /\ UNCHANGED <<clients, wire>>
       ELSE LET aClient == clients[clientID[c]] IN
            IF Len(aClient.outgoing) # 0
            THEN /\ clients' = [clients EXCEPT ![clientID[c]].outgoing = Tail(@)]
                 /\ IF sockOpen[aClient.socket]
                    THEN /\ wire' = [wire EXCEPT ![aClient.socket] =
                                        Append(@, Head(aClient.outgoing))]
                         /\ UNCHANGED spc
                    ELSE /\ spc' = [spc EXCEPT ![c] = "crashed"]
                         /\ UNCHANGED wire
            ELSE UNCHANGED <<clients, wire, spc>>
    /\ UNCHANGED <<connVars, enq, loopVars, timeVars, tankVars>>

\* ---- send ----

\* SendLoop without the test of the client's type
RECURSIVE SendLoop_AnyType(_, _, _, _)
SendLoop_AnyType(cl, ids, recipient, message) ==
    IF ids = {} THEN cl
    ELSE LET id == CHOOSE i \in ids : TRUE IN
         SendLoop_AnyType([cl EXCEPT ![id].outgoing = Append(@, message)],
                          ids \ {id}, recipient, message)

\* for clientID in clients: if clients[clientID].type == recipient: append
RECURSIVE SendLoop(_, _, _, _)
SendLoop(cl, ids, recipient, message) ==
    IF ids = {} THEN cl
    ELSE LET id == CHOOSE i \in ids : TRUE IN
         SendLoop(IF cl[id].type = recipient
                  THEN [cl EXCEPT ![id].outgoing = Append(@, message)]
                  ELSE cl,
                  ids \ {id}, recipient, message)

\* send(recipient, message) with an int recipient: clients[recipient] raises
\* KeyError when recipient is not in clients
SendRaises(cl, recipient) == recipient \notin DOMAIN cl

\* send(recipient, message) with an int recipient that is in clients
SendToID(cl, recipient, message) ==
    [cl EXCEPT ![recipient].outgoing = Append(@, message)]

\* send(recipient, message) with a client type as recipient
SendToType(cl, recipient, message) == SendLoop(cl, DOMAIN cl, recipient, message)

\* The messages send() has appended so far
Sent == UNION {{enq[c][k] : k \in 1..Len(enq[c])} : c \in Conns}

\* Callbacks send a new message each time, numbered in the order of the calls
\* (the code never looks into a message)
Fresh(message) == message = Cardinality(Sent) + 1

\* A callback calls send(recipient, message) with a clientID; a KeyError
\* leaves the callback and then frameLoop
CallSendID(recipient, message) ==
    /\ InCallback
    /\ IF SendRaises(clients, recipient)
       THEN /\ tpc' = "crashed"
            /\ tfault' = "KeyError"
            /\ UNCHANGED <<clients, enq>>
       ELSE /\ Fresh(message)
            /\ clients' = SendToID(clients, recipient, message)
            /\ enq' = [enq EXCEPT ![clients[recipient].socket] = Append(@, message)]
            /\ UNCHANGED loopVars
    /\ UNCHANGED <<connVars, taskVars, timeVars, tankVars>>

\* A callback calls send(recipient, message) with a client type
CallSendType(recipient, message) ==
    /\ InCallback
    /\ Fresh(message)
    /\ clients' = SendToType(clients, recipient, message)
    /\ enq' = [c \in Conns |->
                 IF \E id \in DOMAIN clients :
                       clients[id].type = recipient /\ clients[id].socket = c
                 THEN Append(enq[c], message) ELSE enq[c]]
    /\ UNCHANGED <<connVars, taskVars, loopVars, timeVars, tankVars>>

\* A callback removes a client from the dict (the server kicks a player)
Evict(id) ==
    /\ InCallback
    /\ id \in DOMAIN clients
    /\ clients' = Pop(clients, id)
    /\ UNCHANGED <<connVars, taskVars, enq, loopVars, timeVars, tankVars>>

\* ---- frameLoop ----

\* sum(deltas)
RECURSIVE Sum(_)
Sum(s) == IF s = <<>> THEN 0 ELSE Head(s) + Sum(Tail(s))

\* The window that drops its newest sample when it is full
Window_DropsNewest(ds, d) ==
    LET appended == Append(ds, d) IN
    IF Len(appended) > WindowLen THEN SubSeq(appended, 1, WindowLen) ELSE appended

\* deltas.append(frameDelta); if len(deltas) > 15: deltas.pop(0)
Window(ds, d) ==
    LET appended == Append(ds, d) IN
    IF Len(appended) > WindowLen THEN Tail(appended) ELSE appended

\* The adjustment by the whole error of the average
Adjust_Proportional(dl, ds) ==
    LET error == (baseDelay * Len(ds) - Sum(ds)) \div Len(ds)
        adjusted == IF Sum(ds) * 100 < 95 * baseDelay * Len(ds) THEN dl + error
                    ELSE IF Sum(ds) * 100 > 105 * baseDelay * Len(ds) THEN dl + error
                    ELSE dl
    IN IF adjusted < DelayFloor THEN DelayFloor ELSE adjusted

\* The adjustment in steps of 5% of the ideal frame
Adjust_CoarseStep(dl, ds) ==
    LET adjusted == IF Sum(ds) * 100 < 95 * baseDelay * Len(ds) THEN dl + 5 * DelayStep
                    ELSE IF Sum(ds) * 100 > 105 * baseDelay * Len(ds) THEN dl - 5 * DelayStep
                    ELSE dl
    IN IF adjusted < DelayFloor THEN DelayFloor ELSE adjusted

\* The adjustment with the edges of the band nudging too
Adjust_EdgesNudge(dl, ds) ==
    LET adjusted == IF Sum(ds) * 100 <= 95 * baseDelay * Len(ds) THEN dl + DelayStep
                    ELSE IF Sum(ds) * 100 >= 105 * baseDelay * Len(ds) THEN dl - DelayStep
                    ELSE dl
    IN IF adjusted < DelayFloor THEN DelayFloor ELSE adjusted

\* The adjustment without the floor
Adjust_NoFloor(dl, ds) ==
    IF Sum(ds) * 100 < 95 * baseDelay * Len(ds) THEN dl + DelayStep
    ELSE IF Sum(ds) * 100 > 105 * baseDelay * Len(ds) THEN dl - DelayStep
    ELSE dl

\* The delay after the adjustment and the floor; avgDelta * framesPerSecond
\* against 0.95 and 1.05 is sum(deltas) against 95 and 105 units per sample
Adjust(dl, ds) ==
    LET adjusted == IF Sum(ds) * 100 < 95 * baseDelay * Len(ds) THEN dl + DelayStep
                    ELSE IF Sum(ds) * 100 > 105 * baseDelay * Len(ds) THEN dl - DelayStep
                    ELSE dl
    IN IF adjusted < DelayFloor THEN DelayFloor ELSE adjusted

\* The loop body from the top to the call of frameCallback(frameDelta)
FrameBegin(d) ==
    /\ Running
    /\ tpc \in {"start", "sleeping"}
    /\ frameDelta' = d
    /\ deltas' = Window(deltas, d)
    /\ delay' = Adjust(delay, deltas')
    /\ tpc' = "frame"
    /\ UNCHANGED <<clients, connVars, taskVars, enq, tfault, timeSinceLastUpdate,
                   overhead, tankVars>>

\* frameCallback returns: the accumulator decides whether updateCallback runs,
\* otherwise the loop sleeps
FrameReturn ==
    /\ Running
    /\ tpc = "frame"
    /\ IF timeSinceLastUpdate + frameDelta >= UpdatePeriod
       THEN /\ timeSinceLastUpdate' = 0
            /\ tpc' = "update"
       ELSE /\ timeSinceLastUpdate' = timeSinceLastUpdate + frameDelta
            /\ tpc' = "sleeping"
    /\ UNCHANGED <<clients, connVars, taskVars, enq, tfault, deltas, delay, frameDelta,
                   overhead, tankVars>>

\* updateCallback returns: the loop sleeps
UpdateReturn ==
    /\ Running
    /\ tpc = "update"
    /\ tpc' = "sleeping"
    /\ UNCHANGED <<clients, connVars, taskVars, enq, tfault, timeVars, tankVars>>

\* frameCallback or updateCallback raises: nothing catches it, so it leaves
\* frameLoop and run_until_complete
CallbackFault ==
    /\ InCallback
    /\ tfault' = IF tpc = "frame" THEN "frameCallback" ELSE "updateCallback"
    /\ tpc' = "crashed"
    /\ UNCHANGED <<clients, connVars, taskVars, enq, timeVars, tankVars>>

\* ---- the specification ----

Next ==
    \/ \E c \in Conns, p \in Paths : Connect(c, p)
    \/ \E c \in Conns : RejectReturn(c)
    \/ \E c \in Conns : RemoteClose(c)
    \/ \E c \in Conns, m \in Received : Recv(c, m)
    \/ \E c \in Conns : RecvClosed(c)
    \/ \E c \in Conns : RecvFault(c)
    \/ \E c \in Conns : SendTaskStep(c)
    \/ \E id \in IDs, m \in Messages : CallSendID(id, m)
    \/ \E t \in ClientTypes, m \in Messages : CallSendType(t, m)
    \/ \E id \in IDs : Evict(id)
    \/ \E d \in SpecDeltas : FrameBegin(d)
    \/ FrameReturn
    \/ UpdateReturn
    \/ CallbackFault

Spec == Init /\ [][Next]_vars

\* The scheduling asyncio gives: each time frameLoop sleeps, every coroutine
\* that is ready runs before frameLoop wakes, so a coroutine that is ready again
\* and again does run (strong fairness); a callback that was entered returns or
\* raises, and a sleeping frameLoop wakes.  What clients and callbacks choose
\* to do (connect, close, send, evict, raise) is not forced.
Fairness ==
    /\ \A c \in Conns : SF_vars(SendTaskStep(c))
    /\ \A c \in Conns : SF_vars(RejectReturn(c))
    /\ \A c \in Conns : SF_vars(RecvClosed(c))
    /\ WF_vars(\E d \in SpecDeltas : FrameBegin(d))
    /\ WF_vars(FrameReturn)
    /\ WF_vars(UpdateReturn)

FairSpec == Spec /\ Fairness

\* ---- the frame loop under a varying clock ----

\* The frame deltas the clock measures here: nothing, the edges of the
\* tolerated band, one step outside either edge, the ideal frame, and a frame
\* as long as a whole update period
TimingDeltas ==
    {0, (95 * baseDelay) \div 100 - DelayStep, (95 * baseDelay) \div 100, baseDelay,
     (105 * baseDelay) \div 100, (105 * baseDelay) \div 100 + DelayStep, UpdatePeriod}

\* The delay is explored up to here
MaxDelay == baseDelay + MaxRise * DelayStep

\* The clock changes its pace only when the window holds one single pace
Steady(d) ==
    IF deltas = <<>> THEN TRUE
    ELSE d = deltas[Len(deltas)] \/ \A i \in DOMAIN deltas : deltas[i] = deltas[1]

\* One tick of frameLoop that measured d
MeasuredFrameBegin(d) ==
    /\ Steady(d)
    /\ Adjust(delay, Window(deltas, d)) <= MaxDelay
    /\ FrameBegin(d)

TimingNext ==
    \/ \E d \in TimingDeltas : MeasuredFrameBegin(d)
    \/ FrameReturn
    \/ UpdateReturn
    \/ CallbackFault

TimingSpec == Init /\ [][TimingNext]_vars

\* ---- the frame loop in closed loop ----

\* The largest overhead the floor can absorb: 1/250 + c <= 1.05 / framesPerSecond
MaxOverhead == (105 * baseDelay) \div 100 - DelayFloor
Overheads == 0..MaxOverhead

ClosedInit ==
    /\ ServerInit
    /\ overhead \in Overheads
    /\ tankObj = tank(0, 0, 0, 0)
    /\ snapshot = NoDict

\* One tick whose frame took the sleep it asked for plus the overhead; the
\* first tick measures the time since lastFrameTime was set just above the loop
ClosedFrameBegin ==
    FrameBegin(IF deltas = <<>> THEN 0 ELSE delay + overhead)

ClosedNext ==
    \/ ClosedFrameBegin
    \/ FrameReturn
    \/ UpdateReturn
    \/ CallbackFault

\* A sleeping loop wakes; a callback that was entered returns unless it raises
ClosedFairness ==
    /\ WF_vars(ClosedFrameBegin)
    /\ WF_vars(FrameReturn)
    /\ WF_vars(UpdateReturn)

ClosedSpec == ClosedInit /\ [][ClosedNext]_vars /\ ClosedFairness

\* ---- the tank on its own ----

serverVars == <<clients, connVars, taskVars, enq, loopVars, timeVars>>

TankInit ==
    /\ ServerInit
    /\ overhead = 0
    /\ tankObj \in Tanks
    /\ snapshot = NoDict

\* tank.didShoot at instant now
didShoot(now) ==
    /\ now >= tankObj[TimestampKey]
    /\ tankObj' = [tankObj EXCEPT ![TimestampKey] = now]
    /\ UNCHANGED <<snapshot, serverVars>>

\* tank.move
move(distance) ==
    /\ tankObj["x"] + Cos(tankObj["heading"]) * distance \in Coords
    /\ tankObj["y"] + Sin(tankObj["heading"]) * distance \in Coords
    /\ tankObj' = [tankObj EXCEPT !["x"] = @ + Cos(tankObj["heading"]) * distance,
                                  !["y"] = @ + Sin(tankObj["heading"]) * distance]
    /\ UNCHANGED <<snapshot, serverVars>>

\* A call of tank.toDict(doClean)
CallToDict(doClean) ==
    /\ tankObj' = toDict(tankObj, doClean).self
    /\ snapshot' = toDict(tankObj, doClean).returned
    /\ UNCHANGED serverVars

TankNext ==
    \/ \E now \in Times : didShoot(now)
    \/ \E distance \in {-1, 1} : move(distance)
    \/ \E doClean \in BOOLEAN : CallToDict(doClean)

TankSpec == TankInit /\ [][TankNext]_vars

TypeOK ==
    /\ DOMAIN clients \subseteq IDs
    /\ \A id \in DOMAIN clients :
          /\ clients[id].socket \in Conns
          /\ clients[id].type \in ClientTypes
          /\ Len(clients[id].outgoing) <= MaxSends
          /\ Len(clients[id].incoming) <= MaxQueue
    /\ \A c \in Conns : clientID[c] \in IDs \cup {NoID}
    /\ delay >= DelayFloor
    /\ Len(deltas) <= WindowLen

\* ---- properties ----

ValidPaths == {ViewerPath, PlayerPath}

\* Connection c is admitted in this step
Admitted(c) == hpc[c] = "idle" /\ hpc'[c] = "recv"

\* C1: every admission registers the new session under a clientID that was
\* not in clients at that moment, leaves every other entry as it was, and
\* draws the clientID from the namespace of the role: 0..PlayerSlots-1 for a
\* player, 1000..9999 for a viewer.
C1_AdmissionUnique ==
    [][\A c \in Conns : Admitted(c) =>
          /\ clientID'[c] \notin DOMAIN clients
          /\ DOMAIN clients' = DOMAIN clients \cup {clientID'[c]}
          /\ clients'[clientID'[c]] =
                [socket |-> c,
                 type |-> IF path'[c] = PlayerPath THEN PlayerType ELSE ViewerType,
                 outgoing |-> <<>>, incoming |-> <<>>]
          /\ \A id \in DOMAIN clients : clients'[id] = clients[id]
          /\ path'[c] = PlayerPath => clientID'[c] \in 0..(PlayerSlots - 1)
          /\ path'[c] = ViewerPath => clientID'[c] \in ViewerLo..ViewerHi
          /\ \A b \in Conns \ {c} : Owns(b) => clientID[b] # clientID'[c]]_vars

\* A connection was admitted under the clientID an earlier connection held
C1_Witness ==
    \E b, c \in Conns :
        /\ b # c
        /\ hpc[b] = "returned" /\ clientID[b] # NoID
        /\ clientID[c] = clientID[b]
        /\ Owns(c)

\* C5: send(type, message) appends message once to the outgoing queue of every
\* client of that type and to no other queue, keeps the keys of clients and
\* every incoming queue, and is one step: no handler, sendTask or socket moves
\* within it.
C5_SendToType ==
    [][\A t \in ClientTypes, m \in Messages : CallSendType(t, m) =>
          /\ DOMAIN clients' = DOMAIN clients
          /\ \A id \in DOMAIN clients :
                /\ clients'[id].outgoing =
                      IF clients[id].type = t
                      THEN Append(clients[id].outgoing, m)
                      ELSE clients[id].outgoing
                /\ clients'[id].incoming = clients[id].incoming
                /\ clients'[id].socket = clients[id].socket
                /\ clients'[id].type = clients[id].type
          /\ UNCHANGED <<hpc, clientID, spc, sockOpen, wire>>]_vars

\* One send() reached the queues of two viewers
C5_Witness ==
    \E b, c \in Conns :
        /\ b # c /\ Owns(b) /\ Owns(c)
        /\ clients[clientID[b]].type = ViewerType
        /\ clients[clientID[c]].type = ViewerType
        /\ enq[b] # <<>> /\ enq[b] = enq[c]

\* Connection c asked for a path that is neither the viewer's nor the player's
Refused(c) == hpc[c] # "idle" /\ path[c] \notin ValidPaths

\* C7: a connection on any other path leaves clients unchanged, gets no
\* clientID and no sendTask, has exactly the rejection text handed to its
\* socket, and the handler's only continuation is to return, which closes it.
C7_InvalidPathRejected ==
    /\ [](\A c \in Conns : Refused(c) =>
             /\ hpc[c] \in {"rejecting", "returned"}
             /\ clientID[c] = NoID
             /\ spc[c] = "none"
             /\ wire[c] = <<Rejection>>
             /\ \A id \in DOMAIN clients : clients[id].socket # c
             /\ hpc[c] = "returned" => ~sockOpen[c])
    /\ [][\A c \in Conns :
             /\ (hpc[c] = "idle" /\ hpc'[c] # "idle" /\ path'[c] \notin ValidPaths)
                   => clients' = clients
             /\ (hpc[c] = "rejecting" /\ hpc'[c] # "rejecting")
                   => (hpc'[c] = "returned" /\ ~sockOpen'[c])]_vars

\* A refused connection has returned while another client is registered
C7_Witness ==
    \E c \in Conns :
        /\ Refused(c) /\ hpc[c] = "returned"
        /\ clients # <<>>

\* Connection c's session is registered, its socket is open and the server
\* process has not ended
Connected(c) == Owns(c) /\ sockOpen[c] /\ tpc # "crashed"

\* What was enqueued for a connected session is what its socket was handed
\* followed by what is still queued: nothing lost, repeated or out of order
DrainInOrder ==
    \A c \in Conns : Connected(c) =>
        enq[c] = wire[c] \o clients[clientID[c]].outgoing

\* C2: the messages enqueued to a session that stays connected are handed to
\* its socket once each and in the order of the enqueues, and every one of
\* them is eventually handed over.
C2_DeliveredInOrder ==
    /\ []DrainInOrder
    /\ \A c \in Conns, k \in 1..MaxSends :
          (Connected(c) /\ Len(enq[c]) >= k)
             ~> (~Connected(c) \/ Len(wire[c]) >= k)

\* C3: whatever clients do, frameLoop, once asleep, always comes to its next
\* call of frameCallback.
C3_FramesForever == [](tpc = "sleeping" => <>(tpc = "frame"))

\* clientHandler of connection c saw ConnectionClosed and popped its clientID
Removed(c) == hpc[c] = "returned" /\ clientID[c] # NoID

\* C4: once the receive loop has removed the session, the next pass of that
\* session's sendTask through its loop condition finds clientID not in clients
\* and leaves the loop.
C4_DrainExitsAfterRemoval ==
    [][\A c \in Conns : (Removed(c) /\ SendTaskStep(c)) => spc'[c] = "exited"]_vars

\* C6: send(clientID, message) with a clientID that is not in clients raises
\* nothing, changes nothing, and the frame it was called in goes on.
C6_SendToAbsentIsNoOp ==
    [][\A id \in IDs, m \in Messages :
          (id \notin DOMAIN clients /\ CallSendID(id, m)) =>
              /\ clients' = clients
              /\ tpc' = tpc
              /\ tfault' = "none"]_vars

\* C8: when recv() raises anything, ConnectionClosed or not, the handler is
\* over and the session it registered is no longer in clients.
C8_FaultRemovesSession ==
    \A c \in Conns : hpc[c] \in {"returned", "fault"} /\ clientID[c] # NoID => ~Owns(c)

\* C9: an exception out of frameCallback or updateCallback does not end
\* frameLoop.
C9_CallbackFaultCaught ==
    tpc = "crashed" => tfault \notin {"frameCallback", "updateCallback"}

\* The receive loop of connection c ends in this step
HandlerEnds(c) == hpc[c] = "recv" /\ hpc'[c] \in {"returned", "keyError", "fault"}

\* C10: when the receive loop of a connection ends, by closure or by fault,
\* every session registered for another connection stays in clients with its
\* queues as they were, also one registered under the same clientID.
C10_ClosureContained ==
    [][\A c \in Conns : HandlerEnds(c) =>
          \A id \in DOMAIN clients : clients[id].socket # c =>
              id \in DOMAIN clients' /\ clients'[id] = clients[id]]_vars

\* ---- the frame loop's controller ----

\* The window's average times framesPerSecond is below 0.95 / above 1.05
TooFast(ds) == Sum(ds) * 100 < 95 * baseDelay * Len(ds)
TooSlow(ds) == Sum(ds) * 100 > 105 * baseDelay * Len(ds)

InBand(ds) ==
    /\ 95 * baseDelay * Len(ds) <= Sum(ds) * 100
    /\ Sum(ds) * 100 <= 105 * baseDelay * Len(ds)

\* A step that is the top of one pass through frameLoop's body
Ticks == tpc \in {"start", "sleeping"} /\ tpc' = "frame"

\* C12: a tick whose window average times framesPerSecond lies in [0.95, 1.05],
\* the edges included, leaves a delay that is at or above the floor unchanged
C12_BandHolds ==
    [][(Ticks /\ delay >= DelayFloor /\ InBand(deltas')) => delay' = delay]_vars

\* A tick found a full window exactly on the lower edge of the band, with the
\* delay already moved away from the ideal frame
C12_Witness ==
    /\ tpc = "frame"
    /\ Len(deltas) = WindowLen
    /\ Sum(deltas) * 100 = 95 * baseDelay * Len(deltas)
    /\ delay # baseDelay

\* The loop has settled on delay dl: the window is in the band and stays there
SettledOn(dl) == delay = dl /\ deltas # <<>> /\ InBand(deltas)

\* C13: when every frame takes the delay it slept plus a constant overhead that
\* the floor can absorb, the loop started at the ideal delay with an empty
\* window reaches a tick from which on the window average stays within
\* [0.95, 1.05] of the target and the delay no longer changes, for as long as
\* no callback ends the loop
C13_Converges ==
    \E dl \in DelayFloor..(2 * baseDelay) : <>[](tpc = "crashed" \/ SettledOn(dl))

\* The largest overhead: the loop came down to the floor and rests on the
\* upper edge of the band
C13_Witness ==
    /\ overhead = MaxOverhead
    /\ tpc = "sleeping"
    /\ SettledOn(DelayFloor)
    /\ \A i \in DOMAIN deltas : deltas[i] = DelayFloor + MaxOverhead

\* ---- sessions under a reused identity ----

\* C14: a message received on a connection's socket is appended, once and at
\* the end, to the inbound queue of the session created for that connection,
\* and to no other session's queue
C14_InboundOwnSocket ==
    [][\A c \in Conns, message \in Received :
          (Recv(c, message) /\ clientID[c] \in DOMAIN clients) =>
              /\ clients[clientID[c]].socket = c
              /\ clients'[clientID[c]].incoming =
                     Append(clients[clientID[c]].incoming, message)
              /\ \A id \in DOMAIN clients \ {clientID[c]} :
                     clients'[id].incoming = clients[id].incoming]_vars

\* ---- tank.toDict ----

\* C15: toDict(True) returns x, y, heading, moving and status with the tank's
\* current values and nothing else; toDict(False) returns these and kills and
\* wins; the last shot time is in neither; the tank is as it was before the call
C15_ToDictSnapshot ==
    [][\A doClean \in BOOLEAN :
          CallToDict(doClean) =>
              /\ DOMAIN snapshot' =
                     IF doClean THEN PublicKeys ELSE PublicKeys \cup ScoreKeys
              /\ \A key \in DOMAIN snapshot' : snapshot'[key] = tankObj[key]
              /\ tankObj' = tankObj]_vars

\* A clean snapshot of a live, moving tank that has scored, shot and moved
C15_Witness ==
    /\ DOMAIN snapshot = PublicKeys
    /\ DOMAIN tankObj = TankKeys
    /\ tankObj["kills"] = MaxScore /\ tankObj["wins"] = MaxScore
    /\ tankObj[TimestampKey] = MaxTime
    /\ \A key \in PublicKeys : snapshot[key] = tankObj[key]
    /\ snapshot["status"] = "alive" /\ snapshot["moving"] /\ snapshot["x"] = MaxCoord

\* ---- the callbacks of a tick ----

\* The accumulator with this tick's frameDelta added reaches 1/updatesPerSecond
UpdateDue == timeSinceLastUpdate + frameDelta >= UpdatePeriod

\* C16: each tick calls frameCallback once, with the frameDelta the tick
\* measured, and first; it then calls updateCallback, once, exactly when the
\* accumulator with frameDelta added has reached 1/updatesPerSecond, and the
\* accumulator is 0 from that call on; the first tick always calls
\* updateCallback
C16_CallbacksPerTick ==
    [][/\ Ticks => frameDelta' = deltas'[Len(deltas')]
       /\ (tpc # "frame" /\ tpc' = "frame") => Ticks
       /\ (tpc # "update" /\ tpc' = "update") => tpc = "frame"
       /\ (tpc = "frame" /\ tpc' # "frame") =>
              /\ tpc' = "update" <=> UpdateDue
              /\ Len(deltas) = 1 => tpc' = "update"
       /\ tpc' = "update" => timeSinceLastUpdate' = 0
       /\ (tpc = "update" /\ tpc' # "update") => tpc' \in {"sleeping", "crashed"}]_vars

\* ---- the step of the controller ----

Max(a, b) == IF a > b THEN a ELSE b

\* What one tick adds to the delay, in hundredths of the ideal frame
Nudge(ds) == IF TooFast(ds) THEN 1 ELSE IF TooSlow(ds) THEN -1 ELSE 0

\* C17: a tick moves the delay by one step of 1% of 1/framesPerSecond, up
\* when the window average times framesPerSecond is below 0.95, down when it
\* is above 1.05, not at all otherwise, whatever the size of the error, and
\* then raises the delay to 1/250 second if it is below
C17_OneStep ==
    [][Ticks =>
          \E moved \in {delay - DelayStep, delay, delay + DelayStep} :
              /\ 100 * (moved - delay) = Nudge(deltas') * baseDelay
              /\ delay' = Max(moved, DelayFloor)]_vars

\* A tick whose window average is four ideal frames took the delay one more
\* step down, short of the floor
C17_Witness ==
    /\ tpc = "frame"
    /\ Len(deltas) = WindowLen
    /\ Sum(deltas) = WindowLen * UpdatePeriod
    /\ delay < baseDelay - WindowLen * DelayStep
    /\ delay > DelayFloor

\* ---- the window of frame deltas ----

\* C18: when a tick computes the average, the window holds between 1 and 15
\* samples: those it held before with the delta just measured at the end, less
\* the oldest one when that makes more than 15; nothing else changes the window
C18_RollingWindow ==
    [][IF Ticks
       THEN LET all == Append(deltas, frameDelta')
                kept == Min(Len(all), WindowLen)
            IN /\ Len(deltas') = kept
               /\ kept >= 1 /\ kept <= WindowLen
               /\ \A i \in 1..kept : deltas'[i] = all[Len(all) - kept + i]
       ELSE deltas' = deltas]_vars

\* More than 15 ticks have run (the delay is down at the floor), the pace went
\* from the ideal frame to a whole update period 14 ticks ago, and the window
\* holds the one remaining ideal frame first
C18_Witness ==
    /\ tpc = "frame"
    /\ delay = DelayFloor
    /\ Len(deltas) = WindowLen
    /\ deltas[1] = baseDelay
    /\ \A i \in 2..WindowLen : deltas[i] = UpdatePeriod

\* The sendTasks that are alive and poll identity id
Drains(id) == {c \in Conns : spc[c] = "ready" /\ clientID[c] = id}

\* C19: no registered identity is polled by more than one live sendTask
C19_OneDrainPerIdentity ==
    \A id \in DOMAIN clients : Cardinality(Drains(id)) <= 1

\* The members of a sequence
Range(s) == {s[k] : k \in 1..Len(s)}

\* C20: a session is admitted with empty inbound and outbound queues, and the
\* socket of a connection is only ever handed messages that were enqueued for
\* that connection's own session: what was still queued for an earlier holder
\* of the identity is dropped with it
C20_NoLeakOnReuse ==
    [][/\ \A c \in Conns :
             Admitted(c) =>
                 /\ clients'[clientID'[c]].socket = c
                 /\ clients'[clientID'[c]].outgoing = <<>>
                 /\ clients'[clientID'[c]].incoming = <<>>
       /\ \A c \in Conns :
             clientID'[c] # NoID => Range(wire'[c]) \subseteq Range(enq'[c])]_vars

\* An identity was reused: the earlier holder went with a message still
\* queued for it, and the later holder's socket has been handed a message
C20_Witness ==
    \E b, c \in Conns :
        /\ b # c
        /\ clientID[b] = clientID[c] /\ clientID[c] # NoID
        /\ ~Owns(b) /\ Owns(c)
        /\ Len(wire[b]) < Len(enq[b])
        /\ wire[c] # <<>>

====
